---- MODULE Spec2Model ----
(***************************************************************************)
(* Model of the two scripts of wormhole-cross-chain:                       *)
(*   src/scripts/token-transfer-payload.ts  (main, tokenTransfer)          *)
(*   src/scripts/create-wrapped.ts          (main, waitForIt)              *)
(* One behaviour runs one of the two scripts.  Calls into the SDK and the  *)
(* chains are the environment: each call is a step that starts the call    *)
(* and a step that returns a result or throws.                             *)
(***************************************************************************)
EXTENDS Integers, Sequences, FiniteSets, TLC

\* ------------------------------------------------------------------ bounds
MaxAmount == 2        \* amounts the caller passes are 1..MaxAmount base units
MaxFee == 3           \* relayer fees the quote may report are 0..MaxFee
MaxDust == 1          \* base units the bridge may dedust from an amount
MaxTxPerSubmit == 2   \* transactions one submission may return
MaxLegs == 3          \* depth at which the model stops following recursion
MaxCallerOps == 2     \* phase operations a caller drives by hand on a record
MaxPolls == 2         \* failed lookups of waitForIt the model counts
MaxMsgs == 2          \* bridge messages one transaction may carry

\* ------------------------------------------------------------- vocabulary
SendChain == "Avalanche"
RcvChain == "Solana"
Chains == {SendChain, RcvChain}

\* A transaction id: the chain it was submitted on and its number there.
TxId(chain, n) == <<chain, n>>
NoTx == <<>>

\* parseTransaction: the m bridge messages a transaction carries, in order.
MsgsOf(txid, m) ==
  [i \in 1..m |-> [chain |-> txid[1], emitter |-> "TokenBridge", sequence |-> <<txid[2], i>>]]

\* The message a transfer transaction carries.
MsgOf(txid) == MsgsOf(txid, 1)[1]

\* The n transaction ids a submission on `chain` returns, in submission
\* order, when `used` transactions were submitted there before.
SubmittedIds(chain, used, n) == [i \in 1..n |-> TxId(chain, used + i)]

\* The token of main (line 27) and its wrapped counterpart on the other chain.
Token == [chain |-> SendChain, address |-> "0xE66b"]
WrappedToken == [chain |-> RcvChain, address |-> "wrapped0xE66b"]

\* getSigner (lines 63-64): chain context, address and signer of each side.
SourceSigner ==
  [chain |-> SendChain, signer |-> "signerAvalanche",
   address |-> [chain |-> SendChain, address |-> "addrAvalanche"]]
DestinationSigner ==
  [chain |-> RcvChain, signer |-> "signerSolana",
   address |-> [chain |-> RcvChain, address |-> "addrSolana"]]

Payload == "Hello World!"

\* delivery.nativeGas (line 59): set only for automatic delivery; an optional
\* value is a sequence of length 0 or 1.
NativeGas(automatic) == IF automatic THEN <<1>> ELSE <<>>

\* The route main passes to tokenTransfer (lines 81-93).
InitialRoute(amt, automatic) ==
  [token |-> Token, amount |-> amt,
   source |-> SourceSigner, destination |-> DestinationSigner,
   delivery |-> [automatic |-> automatic, nativeGas |-> NativeGas(automatic)],
   payload |-> Payload]

Phases == {"Created", "Initiated", "Attested", "Completing", "Completed"}

VARIABLES
  script,         \* which script this behaviour runs: "transfer" or "wrapped"
  \* --- token-transfer-payload.ts
  roundTrip,      \* main's roundTrip flag (line 72)
  recoverTxid,    \* main's recoverTxid (line 74), NoTx when undefined
  inputAmount,    \* main's amount in base units (line 83)
  inputAutomatic, \* main's automatic flag (line 54)
  pc,             \* position of the transfer script
  calls,          \* the calls of tokenTransfer so far: route and roundTrip argument
  xfers,          \* the TokenTransfer object of each call (the transfer record)
  quotes,         \* the quote of each call that got one
  invoked,        \* per call, how often the script invoked each phase operation,
                  \* and the lines the call logged
  submitted,      \* per chain, how many transactions were submitted
  error,          \* what the script threw, "none" while it has not
  caller,         \* phase operations driven by hand after the script ended:
                  \* how many, which was the last and what it failed with
  \* --- create-wrapped.ts
  apc,            \* position of the attestation script
  wrapped,        \* whether the destination chain has the wrapped asset
  attest,         \* the attestation flow's record
  polls           \* failed lookups of waitForIt so far

transferVars == <<roundTrip, recoverTxid, inputAmount, inputAutomatic, pc, calls,
                  xfers, quotes, invoked, error, caller>>
attestVars == <<apc, wrapped, attest, polls>>
vars == <<script, transferVars, submitted, attestVars>>

\* ---------------------------------------------------- the transfer record
\* wh.tokenTransfer (line 123): a fresh record for a request.
NewRecord(route) ==
  [request |-> [token |-> route.token, amount |-> route.amount,
                sourceAddress |-> route.source.address,
                destinationAddress |-> route.destination.address,
                automatic |-> route.delivery.automatic,
                payload |-> route.payload,
                nativeGas |-> route.delivery.nativeGas],
   phase |-> "Created",
   sourceTxIds |-> <<>>, attestationIds |-> <<>>, destinationTxIds |-> <<>>]

\* initiateTransfer returned `txids` (line 146).  An automatic transfer is
\* complete once initiated: the relayer does the rest.
RecInitiated(rec, txids) ==
  [rec EXCEPT !.sourceTxIds = rec.sourceTxIds \o txids,
              !.phase = IF rec.request.automatic THEN "Completed" ELSE "Initiated"]

\* fetchAttestation returned (line 154): the attestation of the message of
\* the first source transaction.
RecAttested(rec) ==
  [rec EXCEPT !.attestationIds = rec.attestationIds \o <<MsgOf(rec.sourceTxIds[1])>>,
              !.phase = "Attested"]

\* completeTransfer was called (line 159) and has not returned yet.
RecCompleting(rec) == [rec EXCEPT !.phase = "Completing"]

\* completeTransfer returned `txids` (line 159).
RecCompleted(rec, txids) ==
  [rec EXCEPT !.destinationTxIds = rec.destinationTxIds \o txids,
              !.phase = "Completed"]

\* RecCompleteFailed rolling the record back one phase too far.
RecCompleteFailed_Reset(rec) == [rec EXCEPT !.phase = "Initiated"]

\* completeTransfer threw (line 159): the record is as it was before the call.
RecCompleteFailed(rec) == [rec EXCEPT !.phase = "Attested"]

\* The four fields a transfer record reports.
RecordView(rec) ==
  [phase |-> rec.phase, sourceTxIds |-> rec.sourceTxIds,
   attestationIds |-> rec.attestationIds, destinationTxIds |-> rec.destinationTxIds]

\* --------------------------------------------------------------- the quote
\* The token a transfer of `token` delivers on chain `dst`.
DestinationTokenOf(token, dst) ==
  IF token.chain = dst THEN token
  ELSE IF token = Token THEN WrappedToken
  ELSE IF token = WrappedToken THEN Token
  ELSE [chain |-> dst, address |-> token.address]

\* TokenTransfer.quoteTransfer (lines 133-138): the amount less the dust the
\* bridge returns to the sender and, for automatic delivery, the relayer fee.
QuoteTransfer(srcChain, dstChain, transfer, fee, dust) ==
  [destinationToken |->
     [token |-> DestinationTokenOf(transfer.token, dstChain),
      amount |-> transfer.amount - dust - (IF transfer.automatic THEN fee ELSE 0)],
   relayFee |-> IF transfer.automatic THEN fee ELSE 0]

\* ------------------------------------------------------------------- state
leg == Len(calls)
route == calls[leg].route
NoInvocations ==
  [initiate |-> 0, fetchAttestation |-> 0, completeTransfer |-> 0, log |-> <<>>]

Init ==
  /\ script \in {"transfer", "wrapped"}
  /\ roundTrip \in BOOLEAN
  /\ inputAutomatic \in BOOLEAN
  /\ inputAmount \in 1..MaxAmount
  /\ recoverTxid \in {NoTx, TxId(SendChain, 1)}
  /\ (script = "wrapped") =>
       (~roundTrip /\ ~inputAutomatic /\ inputAmount = 1 /\ recoverTxid = NoTx)
  /\ pc = IF script = "transfer" THEN "main" ELSE "idle"
  /\ calls = <<>>
  /\ xfers = <<>>
  /\ quotes = <<>>
  /\ invoked = <<>>
  /\ submitted = [c \in Chains |-> 0]
  /\ error = "none"
  /\ caller = [ops |-> 0, op |-> "none", error |-> "none"]
  /\ apc = IF script = "wrapped" THEN "precheck" ELSE "idle"
  /\ wrapped \in BOOLEAN
  /\ (script = "transfer") => ~wrapped
  /\ attest = [phase |-> "Created", precheck |-> "pending", txids |-> <<>>, msgs |-> <<>>, vaa |-> <<>>,
               destTxids |-> <<>>, invoked |-> {}, result |-> <<>>, error |-> "none"]
  /\ polls = 0

\* A throw out of tokenTransfer: main has no handler, the script ends.
Throw(reason) ==
  /\ pc' = "thrown"
  /\ error' = reason

\* ------------------------------------------- token-transfer-payload.ts
\* main, lines 78-95: no recoverTxid, so tokenTransfer is called.
MainTransfer ==
  /\ pc = "main"
  /\ recoverTxid = NoTx
  /\ calls' = <<[route |-> InitialRoute(inputAmount, inputAutomatic),
                 roundTrip |-> roundTrip]>>
  /\ pc' = "tokenTransfer"
  /\ UNCHANGED <<script, roundTrip, recoverTxid, inputAmount, inputAutomatic,
                 xfers, quotes, invoked, submitted, error, caller, attestVars>>

\* tokenTransfer, lines 123-131: the TokenTransfer object of this call.
CreateTransfer ==
  /\ pc = "tokenTransfer"
  /\ xfers' = Append(xfers, NewRecord(route))
  /\ invoked' = Append(invoked, NoInvocations)
  /\ pc' = "quote"
  /\ UNCHANGED <<script, roundTrip, recoverTxid, inputAmount, inputAutomatic,
                 calls, quotes, submitted, error, caller, attestVars>>

\* lines 133-139: the quote is computed.
QuoteOk ==
  /\ pc = "quote"
  /\ \E fee \in 0..MaxFee, dust \in 0..MaxDust :
       /\ (~xfers[leg].request.automatic) => fee = 0
       /\ quotes' = Append(quotes,
            QuoteTransfer(route.source.chain, route.destination.chain,
                          xfers[leg].request, fee, dust))
  /\ invoked' = [invoked EXCEPT ![leg].log = Append(@, "quote")]
  /\ pc' = "check"
  /\ UNCHANGED <<script, roundTrip, recoverTxid, inputAmount, inputAutomatic,
                 calls, xfers, submitted, error, caller, attestVars>>

\* lines 133-138: quoteTransfer throws.
QuoteFail ==
  /\ pc = "quote"
  /\ Throw("QuoteError")
  /\ UNCHANGED <<script, roundTrip, recoverTxid, inputAmount, inputAutomatic,
                 calls, xfers, quotes, invoked, submitted, caller, attestVars>>

\* AmountTooLow testing the requested amount instead of the quoted one.
AmountTooLow_Requested(transfer, quote) ==
  transfer.automatic /\ transfer.amount < 0

\* line 141: the condition under which the script refuses the transfer.
AmountTooLow(transfer, quote) ==
  transfer.automatic /\ quote.destinationToken.amount < 0

\* lines 141-142.
CheckAmount ==
  /\ pc = "check"
  /\ IF AmountTooLow(xfers[leg].request, quotes[leg])
       THEN Throw("InsufficientAmount")
       ELSE pc' = "initiate" /\ UNCHANGED error
  /\ UNCHANGED <<script, roundTrip, recoverTxid, inputAmount, inputAutomatic,
                 calls, xfers, quotes, invoked, submitted, caller, attestVars>>

\* line 146: initiateTransfer is called with the source signer.
StartInitiate ==
  /\ pc = "initiate"
  /\ invoked' = [invoked EXCEPT ![leg].initiate = @ + 1,
                               ![leg].log = Append(@, "Starting transfer")]
  /\ pc' = "initiating"
  /\ UNCHANGED <<script, roundTrip, recoverTxid, inputAmount, inputAutomatic,
                 calls, xfers, quotes, submitted, error, caller, attestVars>>

\* line 146: the source chain accepted the transactions and returned their ids.
InitiateOk ==
  /\ pc = "initiating"
  /\ \E n \in 1..MaxTxPerSubmit :
       LET c == route.source.chain
           txids == SubmittedIds(c, submitted[c], n)
       IN /\ xfers' = [xfers EXCEPT ![leg] = RecInitiated(@, txids)]
          /\ submitted' = [submitted EXCEPT ![c] = @ + n]
  /\ invoked' = [invoked EXCEPT ![leg].log = Append(@, "Started transfer")]
  /\ pc' = "delivery"
  /\ UNCHANGED <<script, roundTrip, recoverTxid, inputAmount, inputAutomatic,
                 calls, quotes, error, caller, attestVars>>

\* InitiateFail retrying: the failed initiateTransfer is invoked again.
InitiateFail_Retries ==
  /\ pc = "initiating"
  /\ pc' = "initiate"
  /\ UNCHANGED <<script, roundTrip, recoverTxid, inputAmount, inputAutomatic,
                 calls, xfers, quotes, invoked, submitted, error, caller,
                 attestVars>>

\* line 146: initiateTransfer throws, nothing was submitted.
InitiateFail ==
  /\ pc = "initiating"
  /\ Throw("SubmissionError")
  /\ UNCHANGED <<script, roundTrip, recoverTxid, inputAmount, inputAutomatic,
                 calls, xfers, quotes, invoked, submitted, caller, attestVars>>

\* AutomaticDone with the delivery test lost: every call returns after initiate.
AutomaticDone_Always(r) == TRUE

\* AutomaticDone with the early return lost: no call returns after initiate.
AutomaticDone_Never(r) == FALSE

\* line 150: the condition under which the call returns right after initiate.
AutomaticDone(r) == r.delivery.automatic

\* line 150: "If automatic, we're done".
CheckDelivery ==
  /\ pc = "delivery"
  /\ pc' = IF AutomaticDone(route) THEN "returned" ELSE "fetch"
  /\ UNCHANGED <<script, roundTrip, recoverTxid, inputAmount, inputAutomatic,
                 calls, xfers, quotes, invoked, submitted, error, caller,
                 attestVars>>

\* StartFetch without the await: the script goes on while the fetch runs.
StartFetch_NoAwait ==
  /\ pc = "fetch"
  /\ invoked' = [invoked EXCEPT ![leg].fetchAttestation = @ + 1,
                               ![leg].log = Append(@, "Getting Attestation")]
  /\ pc' = "complete"
  /\ UNCHANGED <<script, roundTrip, recoverTxid, inputAmount, inputAutomatic,
                 calls, xfers, quotes, submitted, error, caller, attestVars>>

\* line 154: fetchAttestation(60_000) is called.
StartFetch ==
  /\ pc = "fetch"
  /\ invoked' = [invoked EXCEPT ![leg].fetchAttestation = @ + 1,
                               ![leg].log = Append(@, "Getting Attestation")]
  /\ pc' = "fetching"
  /\ UNCHANGED <<script, roundTrip, recoverTxid, inputAmount, inputAutomatic,
                 calls, xfers, quotes, submitted, error, caller, attestVars>>

\* line 154: the signed attestation arrived within the timeout.
FetchOk ==
  /\ pc = "fetching"
  /\ xfers' = [xfers EXCEPT ![leg] = RecAttested(@)]
  /\ invoked' = [invoked EXCEPT ![leg].log = Append(@, "Got Attestation")]
  /\ pc' = "complete"
  /\ UNCHANGED <<script, roundTrip, recoverTxid, inputAmount, inputAutomatic,
                 calls, quotes, submitted, error, caller, attestVars>>

\* FetchTimeout with the failure swallowed: the script goes on to complete.
FetchTimeout_Swallowed ==
  /\ pc = "fetching"
  /\ pc' = "complete"
  /\ UNCHANGED <<script, roundTrip, recoverTxid, inputAmount, inputAutomatic,
                 calls, xfers, quotes, invoked, submitted, error, caller,
                 attestVars>>

\* line 154: the timeout elapsed, fetchAttestation throws.
FetchTimeout ==
  /\ pc = "fetching"
  /\ Throw("AttestationTimeout")
  /\ UNCHANGED <<script, roundTrip, recoverTxid, inputAmount, inputAutomatic,
                 calls, xfers, quotes, invoked, submitted, caller, attestVars>>

\* line 159: completeTransfer is called with the destination signer.
StartComplete ==
  /\ pc = "complete"
  /\ invoked' = [invoked EXCEPT ![leg].completeTransfer = @ + 1,
                               ![leg].log = Append(@, "Completing Transfer")]
  /\ xfers' = [xfers EXCEPT ![leg] = RecCompleting(@)]
  /\ pc' = "completing"
  /\ UNCHANGED <<script, roundTrip, recoverTxid, inputAmount, inputAutomatic,
                 calls, quotes, submitted, error, caller, attestVars>>

\* line 159: the destination chain accepted the redemption.
CompleteOk ==
  /\ pc = "completing"
  /\ \E n \in 1..MaxTxPerSubmit :
       LET c == route.destination.chain
           txids == SubmittedIds(c, submitted[c], n)
       IN /\ xfers' = [xfers EXCEPT ![leg] = RecCompleted(@, txids)]
          /\ submitted' = [submitted EXCEPT ![c] = @ + n]
  /\ invoked' = [invoked EXCEPT ![leg].log = Append(@, "Completed Transfer")]
  /\ pc' = "roundtrip"
  /\ UNCHANGED <<script, roundTrip, recoverTxid, inputAmount, inputAutomatic,
                 calls, quotes, error, caller, attestVars>>

\* CompleteFail rolling back every record of the run, not only its own.
CompleteFail_RollsBackAll ==
  /\ pc = "completing"
  /\ xfers' = [i \in DOMAIN xfers |-> RecCompleteFailed(xfers[i])]
  /\ Throw("SubmissionError")
  /\ UNCHANGED <<script, roundTrip, recoverTxid, inputAmount, inputAutomatic,
                 calls, quotes, invoked, submitted, caller, attestVars>>

\* line 159: completeTransfer throws, nothing was submitted.
CompleteFail ==
  /\ pc = "completing"
  /\ xfers' = [xfers EXCEPT ![leg] = RecCompleteFailed(@)]
  /\ Throw("SubmissionError")
  /\ UNCHANGED <<script, roundTrip, recoverTxid, inputAmount, inputAutomatic,
                 calls, quotes, invoked, submitted, caller, attestVars>>

\* SecondLegRoute built afresh, without the spread of the first route: the
\* payload is left out.
SecondLegRoute_NoSpread(r, quote) ==
  [token |-> quote.destinationToken.token,
   amount |-> quote.destinationToken.amount,
   source |-> r.destination, destination |-> r.source,
   delivery |-> r.delivery, payload |-> ""]

\* SecondLegRoute sending back the amount of the first leg's request.
SecondLegRoute_SameAmount(r, quote) ==
  [r EXCEPT !.token = quote.destinationToken.token,
            !.source = r.destination,
            !.destination = r.source]

\* lines 165-172: the route of the recursive call.
SecondLegRoute(r, quote) ==
  [r EXCEPT !.token = quote.destinationToken.token,
            !.amount = quote.destinationToken.amount,
            !.source = r.destination,
            !.destination = r.source]

\* RecursiveRoundTrip handing the caller's flag on to the recursive call.
RecursiveRoundTrip_Inherited(rt) == rt

\* lines 166-172: the recursive call passes no roundTrip argument.
RecursiveRoundTrip(rt) == FALSE

\* NoRoundTrip with the flag ignored: the call always returns.
NoRoundTrip_Always(rt) == TRUE

\* line 163: the condition under which the call returns after completion.
NoRoundTrip(rt) == ~rt

\* line 163: "If no need to send back, dip".
ReturnNoRoundTrip ==
  /\ pc = "roundtrip"
  /\ NoRoundTrip(calls[leg].roundTrip)
  /\ pc' = "returned"
  /\ UNCHANGED <<script, roundTrip, recoverTxid, inputAmount, inputAutomatic,
                 calls, xfers, quotes, invoked, submitted, error, caller,
                 attestVars>>

\* lines 165-172: tokenTransfer calls itself for the way back.
Recurse ==
  /\ pc = "roundtrip"
  /\ ~NoRoundTrip(calls[leg].roundTrip)
  /\ leg < MaxLegs
  /\ calls' = Append(calls, [route |-> SecondLegRoute(route, quotes[leg]),
                             roundTrip |-> RecursiveRoundTrip(calls[leg].roundTrip)])
  /\ pc' = "tokenTransfer"
  /\ UNCHANGED <<script, roundTrip, recoverTxid, inputAmount, inputAutomatic,
                 xfers, quotes, invoked, submitted, error, caller, attestVars>>

\* TokenTransfer.from (lines 97-100): the record of a transfer whose source
\* transaction `txid` is already on chain.
Recovered(r, txid) ==
  [NewRecord(r) EXCEPT !.phase = "Initiated", !.sourceTxIds = <<txid>>]

\* MainRecover ignoring recoverTxid: the transfer is submitted afresh.
MainRecover_Resubmits ==
  /\ pc = "main"
  /\ recoverTxid # NoTx
  /\ calls' = <<[route |-> InitialRoute(inputAmount, inputAutomatic),
                 roundTrip |-> roundTrip]>>
  /\ pc' = "tokenTransfer"
  /\ UNCHANGED <<script, roundTrip, recoverTxid, inputAmount, inputAutomatic,
                 xfers, quotes, invoked, submitted, error, caller, attestVars>>

\* main, lines 96-100: recoverTxid is set, the transfer is recovered from it
\* and tokenTransfer is not called.
MainRecover ==
  /\ pc = "main"
  /\ recoverTxid # NoTx
  /\ xfers' = <<Recovered(InitialRoute(inputAmount, inputAutomatic), recoverTxid)>>
  /\ pc' = "recovered"
  /\ UNCHANGED <<script, roundTrip, recoverTxid, inputAmount, inputAutomatic,
                 calls, quotes, invoked, submitted, error, caller, attestVars>>

\* ------------------------------------ phase operations driven by hand
\* The record the script left behind: the one of its last call, or the
\* recovered one.
last == Len(xfers)
ScriptEnded == pc \in {"thrown", "recovered"}

\* fetchAttestation is valid for a manual transfer in phase Initiated.
FetchValid(rec) == ~rec.request.automatic /\ rec.phase = "Initiated"

\* completeTransfer is valid in phase Attested.
CompleteValid(rec) == rec.phase = "Attested"

\* The caller invokes fetchAttestation on the record and it succeeds.
CallerFetchOk ==
  /\ ScriptEnded /\ last > 0 /\ caller.ops < MaxCallerOps
  /\ FetchValid(xfers[last])
  /\ xfers' = [xfers EXCEPT ![last] = RecAttested(@)]
  /\ caller' = [ops |-> caller.ops + 1, op |-> "fetchAttestation",
               error |-> "none"]
  /\ UNCHANGED <<script, roundTrip, recoverTxid, inputAmount, inputAutomatic,
                 pc, error, calls, quotes, invoked, submitted, attestVars>>

\* The caller invokes fetchAttestation on the record and it times out.
CallerFetchTimeout ==
  /\ ScriptEnded /\ last > 0 /\ caller.ops < MaxCallerOps
  /\ FetchValid(xfers[last])
  /\ caller' = [ops |-> caller.ops + 1, op |-> "fetchAttestation",
               error |-> "AttestationTimeout"]
  /\ UNCHANGED <<script, roundTrip, recoverTxid, inputAmount, inputAutomatic,
                 pc, error, calls, xfers, quotes, invoked, submitted, attestVars>>

\* The caller invokes completeTransfer on the record and it succeeds.
CallerCompleteOk ==
  /\ ScriptEnded /\ last > 0 /\ caller.ops < MaxCallerOps
  /\ CompleteValid(xfers[last])
  /\ \E n \in 1..MaxTxPerSubmit :
       LET c == xfers[last].request.destinationAddress.chain
           txids == SubmittedIds(c, submitted[c], n)
       IN /\ xfers' = [xfers EXCEPT ![last] = RecCompleted(@, txids)]
          /\ submitted' = [submitted EXCEPT ![c] = @ + n]
  /\ caller' = [ops |-> caller.ops + 1, op |-> "completeTransfer",
               error |-> "none"]
  /\ UNCHANGED <<script, roundTrip, recoverTxid, inputAmount, inputAutomatic,
                 pc, error, calls, quotes, invoked, attestVars>>

\* The caller invokes completeTransfer on the record and the submission fails.
CallerCompleteFail ==
  /\ ScriptEnded /\ last > 0 /\ caller.ops < MaxCallerOps
  /\ CompleteValid(xfers[last])
  /\ caller' = [ops |-> caller.ops + 1, op |-> "completeTransfer",
               error |-> "SubmissionError"]
  /\ UNCHANGED <<script, roundTrip, recoverTxid, inputAmount, inputAutomatic,
                 pc, error, calls, xfers, quotes, invoked, submitted, attestVars>>

\* The caller holds the record: the script ended, by a return too.
RecordHeld == ScriptEnded \/ pc = "returned"

\* The caller invokes fetchAttestation on a record it is not valid for.
CallerFetchInvalid ==
  /\ RecordHeld /\ last > 0 /\ caller.ops < MaxCallerOps
  /\ ~FetchValid(xfers[last])
  /\ caller' = [ops |-> caller.ops + 1, op |-> "fetchAttestation",
               error |-> "InvalidPhase"]
  /\ UNCHANGED <<script, roundTrip, recoverTxid, inputAmount, inputAutomatic,
                 pc, error, calls, xfers, quotes, invoked, submitted, attestVars>>

\* The caller invokes completeTransfer on a record it is not valid for.
CallerCompleteInvalid ==
  /\ RecordHeld /\ last > 0 /\ caller.ops < MaxCallerOps
  /\ ~CompleteValid(xfers[last])
  /\ caller' = [ops |-> caller.ops + 1, op |-> "completeTransfer",
               error |-> "InvalidPhase"]
  /\ UNCHANGED <<script, roundTrip, recoverTxid, inputAmount, inputAutomatic,
                 pc, error, calls, xfers, quotes, invoked, submitted, attestVars>>

\* ------------------------------------------------------ create-wrapped.ts
\* The attestation flow throws: main's catch (line 104) logs the error.
AttestThrow(reason) ==
  /\ apc' = "failed"
  /\ attest' = [attest EXCEPT !.error = reason]

\* PreCheckFound without its return: main logs and goes on to attest.
PreCheckFound_NoReturn ==
  /\ apc = "precheck"
  /\ wrapped
  /\ attest' = [attest EXCEPT !.precheck = "found",
                              !.invoked = @ \cup {"getWrappedAsset"}]
  /\ apc' = "create"
  /\ UNCHANGED <<script, transferVars, submitted, wrapped, polls>>

\* lines 32-38: the wrapped asset exists already, main returns it.
PreCheckFound ==
  /\ apc = "precheck"
  /\ wrapped
  /\ attest' = [attest EXCEPT !.phase = "Registered",
                              !.precheck = "found",
                              !.result = <<WrappedToken>>,
                              !.invoked = @ \cup {"getWrappedAsset"}]
  /\ apc' = "done"
  /\ UNCHANGED <<script, transferVars, submitted, wrapped, polls>>

\* lines 32-43: the lookup throws, main goes on to attest the token.
PreCheckNotFound ==
  /\ apc = "precheck"
  /\ ~wrapped
  /\ attest' = [attest EXCEPT !.precheck = "notfound",
                              !.invoked = @ \cup {"getWrappedAsset"}]
  /\ apc' = "create"
  /\ UNCHANGED <<script, transferVars, submitted, wrapped, polls>>

\* lines 49-56: createAttestation, its transactions are signed and sent.
StartCreateAttestation ==
  /\ apc = "create"
  /\ attest' = [attest EXCEPT !.invoked = @ \cup {"createAttestation"}]
  /\ apc' = "creating"
  /\ UNCHANGED <<script, transferVars, submitted, wrapped, polls>>

\* lines 56-58: the source chain returned the transaction ids.
CreateAttestationOk ==
  /\ apc = "creating"
  /\ \E n \in 1..MaxTxPerSubmit :
       /\ attest' = [attest EXCEPT
            !.txids = SubmittedIds(SendChain, submitted[SendChain], n),
            !.phase = "AttestationSubmitted"]
       /\ submitted' = [submitted EXCEPT ![SendChain] = @ + n]
  /\ apc' = "parse"
  /\ UNCHANGED <<script, transferVars, wrapped, polls>>

\* line 56: signSendWait throws.
CreateAttestationFail ==
  /\ apc = "creating"
  /\ AttestThrow("SubmissionError")
  /\ UNCHANGED <<script, transferVars, submitted, wrapped, polls>>

\* ParseTransaction parsing the last transaction of the submission.
ParseTransaction_LastTx ==
  /\ apc = "parse"
  /\ \E m \in 1..MaxMsgs :
       attest' = [attest EXCEPT !.msgs = MsgsOf(attest.txids[Len(attest.txids)], m)]
  /\ apc' = "getVaa"
  /\ UNCHANGED <<script, transferVars, submitted, wrapped, polls>>

\* lines 58-63: the messages of the first transaction are parsed.
ParseTransaction ==
  /\ apc = "parse"
  /\ \E m \in 1..MaxMsgs :
       attest' = [attest EXCEPT !.msgs = MsgsOf(attest.txids[1], m)]
  /\ apc' = "getVaa"
  /\ UNCHANGED <<script, transferVars, submitted, wrapped, polls>>

\* line 62: parseTransaction throws.
ParseTransactionFail ==
  /\ apc = "parse"
  /\ AttestThrow("ParseError")
  /\ UNCHANGED <<script, transferVars, submitted, wrapped, polls>>

\* lines 66-67: getVaa is called for the first message.
StartGetVaa ==
  /\ apc = "getVaa"
  /\ attest' = [attest EXCEPT !.invoked = @ \cup {"getVaa"}]
  /\ apc' = "awaiting"
  /\ UNCHANGED <<script, transferVars, submitted, wrapped, polls>>

\* line 67: the signed attestation of the first message arrived.
GetVaaOk ==
  /\ apc = "awaiting"
  /\ attest' = [attest EXCEPT
       !.vaa = <<[message |-> attest.msgs[1], type |-> "TokenBridge:AttestMeta"]>>]
  /\ apc' = "submit"
  /\ UNCHANGED <<script, transferVars, submitted, wrapped, polls>>

\* GetVaaTimeout without the test of line 69: main goes on with no VAA.
GetVaaTimeout_NoCheck ==
  /\ apc = "awaiting"
  /\ apc' = "submit"
  /\ UNCHANGED <<script, transferVars, submitted, wrapped, attest, polls>>

\* lines 67-73: getVaa returned nothing within the timeout, main throws.
GetVaaTimeout ==
  /\ apc = "awaiting"
  /\ AttestThrow("VaaNotFound")
  /\ UNCHANGED <<script, transferVars, submitted, wrapped, polls>>

\* lines 80-86: submitAttestation, its transactions are signed and sent.
StartSubmitAttestation ==
  /\ apc = "submit"
  /\ attest' = [attest EXCEPT !.invoked = @ \cup {"submitAttestation"}]
  /\ apc' = "submitting"
  /\ UNCHANGED <<script, transferVars, submitted, wrapped, polls>>

\* lines 86-87: the destination chain returned the transaction ids.
SubmitAttestationOk ==
  /\ apc = "submitting"
  /\ \E n \in 1..MaxTxPerSubmit :
       /\ attest' = [attest EXCEPT
            !.destTxids = SubmittedIds(RcvChain, submitted[RcvChain], n),
            !.phase = "AttestationSigned"]
       /\ submitted' = [submitted EXCEPT ![RcvChain] = @ + n]
  /\ apc' = "poll"
  /\ UNCHANGED <<script, transferVars, wrapped, polls>>

\* SubmitAttestationFail with the failure swallowed: main goes on to poll.
SubmitAttestationFail_Swallowed ==
  /\ apc = "submitting"
  /\ apc' = "poll"
  /\ UNCHANGED <<script, transferVars, submitted, wrapped, attest, polls>>

\* line 86: signSendWait throws.
SubmitAttestationFail ==
  /\ apc = "submitting"
  /\ AttestThrow("SubmissionError")
  /\ UNCHANGED <<script, transferVars, submitted, wrapped, polls>>

\* The destination chain registers the wrapped asset (this flow's
\* attestation, or anybody else's, took effect).
ChainRegisters ==
  /\ script = "wrapped"
  /\ apc \notin {"idle", "done", "failed"}
  /\ ~wrapped
  /\ wrapped' = TRUE
  /\ UNCHANGED <<script, transferVars, submitted, apc, attest, polls>>

\* waitForIt, lines 92-94: the lookup succeeds.
PollFound ==
  /\ apc = "poll"
  /\ wrapped
  /\ attest' = [attest EXCEPT !.phase = "Registered",
                              !.result = <<WrappedToken>>,
                              !.invoked = @ \cup {"waitForIt"}]
  /\ apc' = "done"
  /\ UNCHANGED <<script, transferVars, submitted, wrapped, polls>>

\* PollNotFound giving up: the failed lookup is thrown out of waitForIt.
PollNotFound_GivesUp ==
  /\ apc = "poll"
  /\ ~wrapped
  /\ AttestThrow("NotFound")
  /\ UNCHANGED <<script, transferVars, submitted, wrapped, polls>>

\* waitForIt, lines 95-99: the lookup throws, the loop goes to sleep.
PollNotFound ==
  /\ apc = "poll"
  /\ ~wrapped
  /\ attest' = [attest EXCEPT !.invoked = @ \cup {"waitForIt"}]
  /\ polls' = IF polls < MaxPolls THEN polls + 1 ELSE polls
  /\ apc' = "sleep"
  /\ UNCHANGED <<script, transferVars, submitted, wrapped>>

\* waitForIt, lines 99-100: the two seconds elapsed, the loop goes round.
PollWake ==
  /\ apc = "sleep"
  /\ apc' = "poll"
  /\ UNCHANGED <<script, transferVars, submitted, wrapped, attest, polls>>

TransferNext ==
  \/ MainTransfer
  \/ MainRecover
  \/ CreateTransfer
  \/ QuoteOk
  \/ QuoteFail
  \/ CheckAmount
  \/ StartInitiate
  \/ InitiateOk
  \/ InitiateFail
  \/ CheckDelivery
  \/ StartFetch
  \/ FetchOk
  \/ FetchTimeout
  \/ StartComplete
  \/ CompleteOk
  \/ CompleteFail
  \/ ReturnNoRoundTrip
  \/ Recurse

CallerNext ==
  \/ CallerFetchOk
  \/ CallerFetchTimeout
  \/ CallerCompleteOk
  \/ CallerCompleteFail
  \/ CallerFetchInvalid
  \/ CallerCompleteInvalid

AttestNext ==
  \/ PreCheckFound
  \/ PreCheckNotFound
  \/ StartCreateAttestation
  \/ CreateAttestationOk
  \/ CreateAttestationFail
  \/ ParseTransaction
  \/ ParseTransactionFail
  \/ StartGetVaa
  \/ GetVaaOk
  \/ GetVaaTimeout
  \/ StartSubmitAttestation
  \/ SubmitAttestationOk
  \/ SubmitAttestationFail
  \/ ChainRegisters
  \/ PollFound
  \/ PollNotFound
  \/ PollWake

Next ==
  \/ TransferNext
  \/ CallerNext
  \/ AttestNext

Spec == Init /\ [][Next]_vars
\* ------------------------------------------------------------ properties
Records == 1..Len(xfers)
\* The records of calls of tokenTransfer (a recovered record is of no call).
CallRecords == {i \in Records : i <= Len(calls)}
Automatic(i) == xfers[i].request.automatic
Logged(i, line) == \E k \in 1..Len(invoked[i].log) : invoked[i].log[k] = line
\* Call i of tokenTransfer returned its record (to main or to the call before).
Returned(i) == i < Len(calls) \/ pc = "returned"
\* Call i of tokenTransfer ended, by a return or a throw.
Ended(i) == Returned(i) \/ pc = "thrown"

\* C1: a manual run of tokenTransfer leaves its record Completed exactly
\* when its fetchAttestation and its completeTransfer both succeeded, a run
\* that returns has done so, and the record of a run that ended any other
\* way (before anybody drives it by hand) has no destination transaction.
C1_ManualCompletedIffAttestedAndRedeemed ==
  \A i \in CallRecords :
    (~Automatic(i) /\ caller.ops = 0) =>
      LET fetched == Logged(i, "Got Attestation")
          redeemed == Logged(i, "Completed Transfer")
      IN /\ (xfers[i].phase = "Completed") <=> (fetched /\ redeemed)
         /\ Returned(i) => xfers[i].phase = "Completed"
         /\ ~(fetched /\ redeemed) => xfers[i].destinationTxIds = <<>>
         /\ (pc = "thrown" /\ i = leg) =>
              (xfers[i].phase # "Completed" /\ xfers[i].destinationTxIds = <<>>)

C1_Witness ==
  /\ pc = "returned" /\ Len(xfers) = 1 /\ ~Automatic(1)
  /\ xfers[1].phase = "Completed" /\ xfers[1].destinationTxIds # <<>>

\* C2: an automatic transfer never has a destination transaction or an
\* attestation, has a source transaction once initiate succeeded, and its
\* run never invokes fetchAttestation or completeTransfer.
C2_AutomaticNeverAttestsOrRedeems ==
  \A i \in Records :
    Automatic(i) =>
      /\ xfers[i].destinationTxIds = <<>>
      /\ xfers[i].attestationIds = <<>>
      /\ i \in CallRecords =>
           /\ invoked[i].fetchAttestation = 0
           /\ invoked[i].completeTransfer = 0
           /\ Logged(i, "Started transfer") => xfers[i].sourceTxIds # <<>>

C2_Witness ==
  /\ pc = "returned" /\ Len(xfers) = 1 /\ Automatic(1)
  /\ Logged(1, "Started transfer") /\ xfers[1].sourceTxIds # <<>>

\* The quote of call i says the transfer delivers `amount` or less.
QuotedAtMost(i, amount) ==
  /\ i <= Len(quotes)
  /\ quotes[i].destinationToken.amount <= amount
\* Call i never executed initiate and has no source transaction.
NothingSubmitted(i) ==
  /\ invoked[i].initiate = 0
  /\ xfers[i].sourceTxIds = <<>>
\* Call i was refused before anything was submitted on the source chain:
\* once past the test of line 141 it has thrown InsufficientAmount.
RefusedBeforeSubmission(i) ==
  /\ NothingSubmitted(i)
  /\ (i = leg /\ pc # "check") => (pc = "thrown" /\ error = "InsufficientAmount")

C4_SecondLegFromQuote ==
  /\ \A i \in 2..Len(calls) :
       LET r == calls[i].route
           first == calls[i - 1].route
           q == quotes[i - 1].destinationToken
       IN /\ xfers[i - 1].phase = "Completed"
          /\ r.token = q.token
          /\ r.amount = q.amount
          /\ r.source = first.destination
          /\ r.destination = first.source
          /\ i <= Len(xfers) =>
               /\ xfers[i].request.token = q.token
               /\ xfers[i].request.amount = q.amount
               /\ xfers[i].request.sourceAddress = first.destination.address
               /\ xfers[i].request.destinationAddress = first.source.address
  /\ ~roundTrip =>
       /\ Len(calls) <= 1
       /\ Len(xfers) <= 1
       /\ Len(invoked) <= 1

C4_Witness ==
  /\ Len(xfers) = 2
  /\ xfers[2].request.amount = quotes[1].destinationToken.amount
  /\ xfers[2].request.amount # xfers[1].request.amount
  /\ invoked[2].initiate = 1

\* C5: when the first lookup of the wrapped asset resolves, the flow is over
\* and Registered with the wrapped asset as its result, and it has called
\* neither createAttestation nor getVaa nor submitAttestation nor submitted
\* a transaction on either chain.
C5_AlreadyWrappedSkipsAttestation ==
  attest.precheck = "found" =>
    /\ apc = "done"
    /\ attest.phase = "Registered"
    /\ attest.result = <<WrappedToken>>
    /\ attest.invoked = {"getWrappedAsset"}
    /\ attest.txids = <<>> /\ attest.destTxids = <<>>
    /\ \A c \in Chains : submitted[c] = 0

C5_Witness ==
  /\ attest.precheck = "found" /\ apc = "done" /\ attest.phase = "Registered"
\* C6: in every state of every transfer record, failures included: a
\* destination transaction implies phase Completed, and an attestation
\* implies a manual transfer in phase Attested, Completing or Completed.
C6_RecordInvariant ==
  \A i \in Records :
    /\ xfers[i].destinationTxIds # <<>> => xfers[i].phase = "Completed"
    /\ xfers[i].attestationIds # <<>> =>
         /\ xfers[i].phase \in {"Attested", "Completing", "Completed"}
         /\ ~Automatic(i)

C6_Witness ==
  /\ pc = "thrown" /\ error = "SubmissionError"
  /\ xfers[last].attestationIds # <<>> /\ xfers[last].phase = "Attested"

\* A step in which a fetchAttestation of the script ends without an
\* attestation.
ScriptFetchEndsUnattested ==
  /\ pc = "fetching" /\ pc' # "fetching"
  /\ xfers'[leg].phase # "Attested"
\* A step in which a fetchAttestation driven by hand times out.
CallerFetchTimesOut ==
  /\ caller'.ops = caller.ops + 1
  /\ caller'.error = "AttestationTimeout"
\* The record is in phase Initiated with nothing fetched or redeemed, so
\* that fetchAttestation may be invoked on it again.
StillInitiated(rec) ==
  /\ rec.phase = "Initiated" /\ rec.sourceTxIds # <<>>
  /\ rec.attestationIds = <<>> /\ rec.destinationTxIds = <<>>
  /\ FetchValid(rec)

\* C7: a fetchAttestation that times out on a manual transfer in phase
\* Initiated fails with AttestationTimeout and leaves every record as it
\* was, in phase Initiated, where fetchAttestation is valid again.
C7_TimeoutLeavesRecordInitiated ==
  [][/\ ScriptFetchEndsUnattested =>
          /\ pc' = "thrown" /\ error' = "AttestationTimeout"
          /\ xfers' = xfers /\ StillInitiated(xfers'[leg])
     /\ CallerFetchTimesOut =>
          /\ xfers' = xfers /\ StillInitiated(xfers'[last])]_vars

\* A fetchAttestation invoked after a timeout succeeded.
C7_Witness ==
  /\ pc = "thrown" /\ error = "AttestationTimeout"
  /\ caller.ops > 0 /\ xfers[last].phase = "Attested"

\* The record a fresh run ends with when its initiate returned the one
\* transaction `txid` and its completeTransfer returned `destTxids`.
FreshTerminal(r, txid, destTxids) ==
  RecCompleted(RecAttested(RecInitiated(NewRecord(r), <<txid>>)), destTxids)
RecoveredRun == recoverTxid # NoTx /\ pc # "main"

RoundTripFirstLegDone ==
  /\ Len(calls) >= 1 /\ calls[1].roundTrip
  /\ Len(xfers) >= 1 /\ xfers[1].phase = "Completed"
  /\ pc = "returned"
SecondLegRun ==
  /\ Len(calls) = 2 /\ Len(xfers) = 2
  /\ invoked[2].initiate = 1

\* C9 as stated: with roundTrip set and the first transfer Completed, in
\* either delivery mode, a second transfer is built and run.
C9_Original_RoundTripAnyDelivery ==
  RoundTripFirstLegDone => SecondLegRun

\* C9 amended: with roundTrip set and a manual first transfer Completed, a
\* second transfer is built and run (the call is at the recursion or past
\* it); an automatic first transfer is never followed by a second one.
C9_RoundTripOnlyAfterManual ==
  /\ (RoundTripFirstLegDone /\ ~Automatic(1)) => SecondLegRun
  /\ (Len(calls) = 1 /\ calls[1].roundTrip /\ Len(xfers) = 1 /\ ~Automatic(1)
        /\ xfers[1].phase = "Completed" /\ pc # "thrown") =>
       (pc = "roundtrip" /\ ENABLED Recurse)
  /\ (Len(xfers) >= 1 /\ Automatic(1)) => Len(calls) <= 1

C9_Witness ==
  /\ RoundTripFirstLegDone /\ ~Automatic(1) /\ SecondLegRun
  /\ xfers[2].phase = "Completed"

\* A specification in which the script keeps taking its steps: every call
\* it awaits returns or throws.
FairSpec == Spec /\ WF_vars(TransferNext)
Terminated == pc \in {"idle", "returned", "thrown", "recovered"}

\* C10: a run makes at most two calls of tokenTransfer, the second with no
\* roundTrip, and it ends once the operations it awaits end.
C10_AtMostTwoLegs ==
  /\ [](/\ Len(calls) <= 2 /\ Len(xfers) <= 2
        /\ Len(calls) = 2 => ~calls[2].roundTrip)
  /\ <>Terminated

C10_Witness ==
  /\ pc = "returned" /\ Len(calls) = 2 /\ xfers[2].phase = "Completed"
  /\ roundTrip /\ ~calls[2].roundTrip
\* A step in which the script invokes fetchAttestation / completeTransfer.
ScriptInvokesFetch ==
  /\ Len(invoked') = Len(invoked) /\ leg > 0
  /\ invoked'[leg].fetchAttestation > invoked[leg].fetchAttestation
ScriptInvokesComplete ==
  /\ Len(invoked') = Len(invoked) /\ leg > 0
  /\ invoked'[leg].completeTransfer > invoked[leg].completeTransfer
\* A step in which the caller invokes phase operation `op` by hand.
CallerInvokes(op) == caller'.ops = caller.ops + 1 /\ caller'.op = op

Polling == apc \in {"poll", "sleep"}
\* A step of the flow that stops the polling without reaching Registered.
PollingStopsUnregistered ==
  /\ AttestNext
  /\ apc' \notin {"poll", "sleep"}
  /\ attest'.phase # "Registered"

\* C12, for pollForRegistration: while the poll is suspended it can be
\* cancelled, that is, stopped without reaching Registered.
C12_Original_PollingCancellable ==
  Polling => ENABLED PollingStopsUnregistered
\* A step in which getVaa ends with no signed attestation.
GetVaaEndsEmpty ==
  /\ apc = "awaiting" /\ apc' # "awaiting"
  /\ attest'.vaa = <<>>

\* C13: when getVaa ends with no signed attestation the flow fails with
\* VaaNotFound in that step, and a flow that failed so has invoked neither
\* submitAttestation nor waitForIt, has submitted nothing on the destination
\* chain and takes no further step (the wait is not invoked again).
C13_VaaNotFoundEndsFlow ==
  /\ [][GetVaaEndsEmpty =>
          (apc' = "failed" /\ attest'.error = "VaaNotFound")]_vars
  /\ [](attest.error = "VaaNotFound" =>
          /\ apc = "failed"
          /\ attest.vaa = <<>>
          /\ attest.invoked = {"getWrappedAsset", "createAttestation", "getVaa"}
          /\ attest.destTxids = <<>>
          /\ submitted[RcvChain] = 0
          /\ attest.phase = "AttestationSubmitted"
          /\ ~ENABLED AttestNext)

C13_Witness ==
  /\ apc = "failed" /\ attest.error = "VaaNotFound"
  /\ attest.txids # <<>> /\ attest.msgs # <<>>

\* A specification in which waitForIt keeps running: its lookups return
\* and its timer fires.
FairPollSpec ==
  Spec /\ WF_vars(PollFound) /\ WF_vars(PollNotFound) /\ WF_vars(PollWake)

\* C14: waitForIt never leaves its loop on a failed lookup: a failed lookup
\* is followed by the sleep and the sleep by the next lookup; the flow
\* becomes Registered only in a step in which the lookup succeeds; and once
\* the lookup can succeed, the poll reaches Registered.
C14_PollUntilRegistered ==
  /\ [][/\ (Polling /\ attest'.phase # "Registered") => Polling'
        /\ (apc = "poll" /\ apc' # "poll" /\ ~wrapped) =>
             (apc' = "sleep" /\ attest'.phase = attest.phase)
        /\ (apc = "sleep" /\ apc' # "sleep") => apc' = "poll"
        /\ (attest'.phase = "Registered" /\ attest.phase # "Registered") =>
             (wrapped /\ apc \in {"precheck", "poll"} /\ apc' = "done")]_vars
  /\ (Polling /\ wrapped) ~> (attest.phase = "Registered")

\* Registered after lookups that failed.
C14_Witness ==
  /\ polls = MaxPolls /\ attest.phase = "Registered" /\ apc = "done"
  /\ "waitForIt" \in attest.invoked
\* The place of `line` in the log of call i, 0 when the call did not log it.
LogIndex(i, line) ==
  IF Logged(i, line)
    THEN CHOOSE k \in 1..Len(invoked[i].log) : invoked[i].log[k] = line
    ELSE 0
\* Call i logged `first` and, after it, `second`.
LoggedBefore(i, first, second) ==
  /\ Logged(i, first) /\ Logged(i, second)
  /\ LogIndex(i, first) < LogIndex(i, second)
\* The phase operation of call i that has been invoked and has neither
\* returned nor thrown.
InProgress(i, op) ==
  /\ i = leg
  /\ pc = CASE op = "initiate" -> "initiating"
            [] op = "fetchAttestation" -> "fetching"
            [] op = "completeTransfer" -> "completing"

\* C15: in every call of tokenTransfer, fetchAttestation starts only after
\* initiate returned and completeTransfer only after fetchAttestation
\* returned the attestation; while one of the three is in progress the
\* later ones have not been started.
C15_PhasesSequential ==
  \A i \in 1..Len(invoked) :
    /\ invoked[i].fetchAttestation > 0 =>
         /\ LoggedBefore(i, "Started transfer", "Getting Attestation")
         /\ xfers[i].sourceTxIds # <<>>
    /\ invoked[i].completeTransfer > 0 =>
         /\ LoggedBefore(i, "Got Attestation", "Completing Transfer")
         /\ xfers[i].attestationIds # <<>>
    /\ InProgress(i, "initiate") =>
         (invoked[i].fetchAttestation = 0 /\ invoked[i].completeTransfer = 0)
    /\ InProgress(i, "fetchAttestation") => invoked[i].completeTransfer = 0
    /\ InProgress(i, "completeTransfer") =>
         (Logged(i, "Got Attestation") /\ xfers[i].phase = "Completing")

C15_Witness ==
  /\ leg = 1 /\ InProgress(1, "completeTransfer")
  /\ invoked[1].fetchAttestation = 1 /\ xfers[1].attestationIds # <<>>
\* C16: once the second call of a round trip has begun, no step, a failure
\* of its quote, initiate, fetchAttestation or completeTransfer included,
\* changes the record of the first: it stays Completed with its source
\* transactions, attestation and destination transactions.
C16_SecondHopLeavesFirstRecord ==
  [][Len(calls) >= 2 =>
       /\ xfers'[1] = xfers[1]
       /\ xfers'[1].phase = "Completed"
       /\ xfers'[1].sourceTxIds # <<>>
       /\ xfers'[1].attestationIds # <<>>
       /\ xfers'[1].destinationTxIds # <<>>]_vars

\* The second hop failed in its completeTransfer.
C16_Witness ==
  /\ pc = "thrown" /\ error = "SubmissionError" /\ Len(xfers) = 2
  /\ xfers[2].phase = "Attested"
  /\ xfers[1].phase = "Completed" /\ xfers[1].destinationTxIds # <<>>

\* Call i invoked `op`, whose success is logged as `done`, and the
\* operation ended without it.
Failed(i, op, done) ==
  /\ invoked[i][op] > 0
  /\ ~Logged(i, done)
  /\ ~InProgress(i, op)

\* C17: every call of tokenTransfer invokes each of initiate,
\* fetchAttestation and completeTransfer at most once; when one of them
\* failed the call has thrown, the script takes no further step and no
\* later phase operation was invoked (after a failed initiate there is no
\* source transaction).
C17_NoAutomaticRetry ==
  \A i \in 1..Len(invoked) :
    /\ invoked[i].initiate <= 1
    /\ invoked[i].fetchAttestation <= 1
    /\ invoked[i].completeTransfer <= 1
    /\ Failed(i, "initiate", "Started transfer") =>
         /\ i = leg /\ pc = "thrown" /\ error = "SubmissionError"
         /\ xfers[i].sourceTxIds = <<>>
         /\ invoked[i].fetchAttestation = 0 /\ invoked[i].completeTransfer = 0
         /\ ~ENABLED TransferNext
    /\ Failed(i, "fetchAttestation", "Got Attestation") =>
         /\ i = leg /\ pc = "thrown" /\ error = "AttestationTimeout"
         /\ invoked[i].completeTransfer = 0
         /\ ~ENABLED TransferNext
    /\ Failed(i, "completeTransfer", "Completed Transfer") =>
         /\ i = leg /\ pc = "thrown" /\ error = "SubmissionError"
         /\ ~ENABLED TransferNext

C17_Witness ==
  /\ pc = "thrown" /\ leg = 1 /\ Failed(1, "initiate", "Started transfer")
  /\ xfers[1].sourceTxIds = <<>>
\* The transaction ids of a submission are recorded in submission order.
InSubmissionOrder(txids) ==
  \A i, j \in 1..Len(txids) : i < j => txids[i][2] < txids[j][2]

\* The first message of the first transaction of the source submission.
FirstMessage == MsgsOf(attest.txids[1], 1)[1]

\* C18: the attestation flow records every transaction id of the source
\* submission in submission order, parses only the first of them, and the
\* signed attestation it looks up is that of the first message parsed from
\* it; no later id or message is the key of the lookup.
C18_LookupKeyedByFirstTx ==
  /\ InSubmissionOrder(attest.txids)
  /\ InSubmissionOrder(attest.destTxids)
  /\ attest.msgs # <<>> =>
       /\ attest.txids # <<>>
       /\ attest.msgs = MsgsOf(attest.txids[1], Len(attest.msgs))
  /\ attest.vaa # <<>> =>
       /\ attest.msgs # <<>>
       /\ attest.vaa[1].message = FirstMessage
       /\ \A k \in 2..Len(attest.txids) :
            attest.vaa[1].message.sequence[1] # attest.txids[k][2]

\* The submission returned two ids, the first carried two messages and the
\* attestation was found.
C18_Witness ==
  /\ Len(attest.txids) = 2 /\ Len(attest.msgs) = 2
  /\ attest.vaa # <<>> /\ attest.vaa[1].message = FirstMessage

\* The attestation flow's operations in the order of main.
AttestOrder ==
  /\ "createAttestation" \in attest.invoked =>
       ("getWrappedAsset" \in attest.invoked /\ attest.precheck = "notfound")
  /\ "getVaa" \in attest.invoked =>
       /\ "createAttestation" \in attest.invoked
       /\ attest.txids # <<>> /\ attest.msgs # <<>>
  /\ "submitAttestation" \in attest.invoked =>
       /\ "getVaa" \in attest.invoked
       /\ attest.vaa # <<>>
       /\ attest.vaa[1].message = attest.msgs[1]
       /\ attest.vaa[1].message.sequence[1] = attest.txids[1][2]
  /\ (Polling \/ "waitForIt" \in attest.invoked) =>
       /\ "submitAttestation" \in attest.invoked
       /\ attest.destTxids # <<>>
       /\ attest.phase \in {"AttestationSigned", "Registered"}
  /\ attest.precheck = "found" => attest.invoked = {"getWrappedAsset"}

\* A step of the attestation script that begins operation `op` by moving
\* to position `at`.
Begins(at, op) == apc # at /\ apc' = at => op \notin attest.invoked

\* waitForIt is entered from the successful submission only.
EntersPolling ==
  (apc \notin {"poll", "sleep"} /\ apc' = "poll") =>
    (apc = "submitting" /\ "waitForIt" \notin attest.invoked /\ attest'.destTxids # <<>>)

\* C19: the attestation flow runs pre-check, createAttestation, getVaa,
\* submitAttestation, waitForIt in this order and begins each at most once:
\* submitAttestation is invoked only with the signed attestation getVaa
\* returned for the first message of the createAttestation transaction, and
\* waitForIt begins only after submitAttestation returned its transactions.
C19_FixedOrderOncePerRun ==
  /\ []AttestOrder
  /\ [][/\ Begins("precheck", "getWrappedAsset")
        /\ Begins("creating", "createAttestation")
        /\ Begins("awaiting", "getVaa")
        /\ Begins("submitting", "submitAttestation")
        /\ EntersPolling]_vars

\* The whole flow ran and found the wrapped asset by polling.
C19_Witness ==
  /\ apc = "done" /\ attest.result # <<>>
  /\ attest.invoked = {"getWrappedAsset", "createAttestation", "getVaa",
                       "submitAttestation", "waitForIt"}

\* C20: the route and the request of a second leg have the delivery
\* (automatic flag and native gas) and the payload of the first leg, with
\* source and destination swapped; the first leg of a second leg was manual,
\* so the second leg is manual and carries no native gas.
C20_SecondLegInheritsRoute ==
  \A i \in 2..Len(calls) :
    /\ calls[i].route.delivery = calls[i-1].route.delivery
    /\ calls[i].route.payload = calls[i-1].route.payload
    /\ calls[i].route.source = calls[i-1].route.destination
    /\ calls[i].route.destination = calls[i-1].route.source
    /\ ~calls[i-1].route.delivery.automatic
    /\ ~calls[i].route.delivery.automatic
    /\ calls[i].route.delivery.nativeGas = <<>>
    /\ i <= Len(xfers) =>
         /\ xfers[i].request.automatic = xfers[i-1].request.automatic
         /\ xfers[i].request.nativeGas = xfers[i-1].request.nativeGas
         /\ xfers[i].request.payload = xfers[i-1].request.payload
         /\ ~xfers[i].request.automatic

C20_Witness ==
  /\ Len(xfers) = 2 /\ Len(calls) = 2
  /\ xfers[2].request.payload = Payload
  /\ ~xfers[2].request.automatic
  /\ xfers[2].request.sourceAddress = DestinationSigner.address
====
